---- MODULE Spec2Model ----
(***************************************************************************)
(* EquirusHomeSaver (src/src/App.jsx, the second, current revision of the  *)
(* component: lines 252-531).                                              *)
(*                                                                         *)
(* The component keeps four input strings, a focus flag and one result     *)
(* record.  A result is computed by calculateNow from the numbers parsed   *)
(* out of the four strings.                                                *)
(*                                                                         *)
(* Numbers.  The program computes in IEEE-754 doubles.  The model keeps    *)
(* the structure of that arithmetic (a finite value, NaN, +Infinity and    *)
(* -Infinity; every operation rounds its exact result to the nearest       *)
(* representable value, ties to even) at a reduced precision: a finite     *)
(* value is m * 10^e with m = 0 or 100000 <= |m| <= 999999.  Every literal  *)
(* of the program and every input the model types has at most six          *)
(* significant digits, so parsing is exact.  The sign of zero and the      *)
(* exponent range (overflow to Infinity, underflow to 0) are not modelled. *)
(***************************************************************************)
EXTENDS Integers, Sequences, FiniteSets, TLC

----------------------------------------------------------------------------
(* Floating-point values *)

Mant == 1000000

Fin(m, e) == [k |-> "fin", m |-> m, e |-> e]
NaN == [k |-> "nan", m |-> 0, e |-> 0]
PInf == [k |-> "inf", m |-> 1, e |-> 0]
NInf == [k |-> "inf", m |-> -1, e |-> 0]
Zero == Fin(0, 0)

Abs(n) == IF n < 0 THEN -n ELSE n
Sgn(n) == IF n < 0 THEN -1 ELSE IF n = 0 THEN 0 ELSE 1

RECURSIVE Pow10(_)
Pow10(k) == IF k <= 0 THEN 1 ELSE 10 * Pow10(k - 1)

RECURSIVE NumDigits(_)
NumDigits(n) == IF n < 10 THEN 1 ELSE 1 + NumDigits(n \div 10)

MantDigits == NumDigits(Mant) - 1

\* The value sg * (a + f) * 10^e, where a > 0 is an integer and 0 <= f < 1
\* with f > 0 exactly when st holds (digits already dropped), rounded to the
\* nearest representable value, ties to even.  When st holds a has more than
\* MantDigits digits.
NormS(sg, a, e, st) ==
  LET d == NumDigits(a)
      w == MantDigits
  IN IF d <= w
     THEN Fin(sg * a * Pow10(w - d), e - (w - d))
     ELSE LET s == d - w
              p == Pow10(s)
              q == a \div p
              r == a % p
              up == (2 * r > p) \/ (2 * r = p /\ (st \/ q % 2 = 1))
              q2 == IF up THEN q + 1 ELSE q
          IN IF q2 = Mant
             THEN Fin(sg * (Mant \div 10), e + s + 1)
             ELSE Fin(sg * q2, e + s)

\* n * 10^e for any integer n.
Norm(n, e) == IF n = 0 THEN Zero ELSE NormS(Sgn(n), Abs(n), e, FALSE)

Int2F(n) == Norm(n, 0)
One == Int2F(1)

isFinite(x) == x.k = "fin"
IsNaN(x) == x.k = "nan"
IsZero(x) == x.k = "fin" /\ x.m = 0

Neg(x) == IF x.k = "nan" THEN NaN ELSE [x EXCEPT !.m = -x.m]

\* x + y for finite nonzero x, y with x.e >= y.e.
AddFin(x, y) ==
  LET d == x.e - y.e
  IN IF d > MantDigits + 1 THEN x
     ELSE IF d <= 3 THEN Norm(x.m * Pow10(d) + y.m, y.e)
     ELSE LET p == Pow10(d - 3)
              xa == Abs(x.m) * 1000
              yq == Abs(y.m) \div p
              st == Abs(y.m) % p # 0
              same == Sgn(x.m) = Sgn(y.m)
              a == IF same THEN xa + yq
                   ELSE IF st THEN xa - yq - 1 ELSE xa - yq
          IN NormS(Sgn(x.m), a, x.e - 3, st)

Add(x, y) ==
  IF x.k = "nan" \/ y.k = "nan" THEN NaN
  ELSE IF x.k = "inf"
       THEN (IF y.k = "inf" /\ y.m # x.m THEN NaN ELSE x)
  ELSE IF y.k = "inf" THEN y
  ELSE IF x.m = 0 THEN y
  ELSE IF y.m = 0 THEN x
  ELSE IF x.e >= y.e THEN AddFin(x, y) ELSE AddFin(y, x)

Sub(x, y) == Add(x, Neg(y))

Mul(x, y) ==
  IF x.k = "nan" \/ y.k = "nan" THEN NaN
  ELSE IF x.k = "inf" \/ y.k = "inf"
       THEN (IF x.m = 0 \/ y.m = 0 THEN NaN
             ELSE IF Sgn(x.m) = Sgn(y.m) THEN PInf ELSE NInf)
  ELSE IF x.m = 0 \/ y.m = 0 THEN Zero
  ELSE LET a == Abs(x.m)
           h == Abs(y.m) \div 1000
           l == Abs(y.m) % 1000
           top == a * h + (a * l) \div 1000
           st == (a * l) % 1000 # 0
       IN NormS(Sgn(x.m) * Sgn(y.m), top, x.e + y.e + 3, st)

\* Long division: steps more digits of the quotient q, remainder r, of a / b.
RECURSIVE LongDiv(_, _, _, _)
LongDiv(q, r, b, steps) ==
  IF steps = 0 THEN <<q, r>>
  ELSE LongDiv(q * 10 + (r * 10) \div b, (r * 10) % b, b, steps - 1)

Div(x, y) ==
  IF x.k = "nan" \/ y.k = "nan" THEN NaN
  ELSE IF x.k = "inf"
       THEN (IF y.k = "inf" THEN NaN
             ELSE IF (x.m > 0) = (y.m >= 0) THEN PInf ELSE NInf)
  ELSE IF y.k = "inf" THEN Zero
  ELSE IF y.m = 0
       THEN (IF x.m = 0 THEN NaN ELSE IF x.m > 0 THEN PInf ELSE NInf)
  ELSE IF x.m = 0 THEN Zero
  ELSE LET a == Abs(x.m)
           b == Abs(y.m)
           qr == LongDiv(a \div b, a % b, b, MantDigits + 2)
       IN NormS(Sgn(x.m) * Sgn(y.m), qr[1], x.e - y.e - (MantDigits + 2),
                qr[2] # 0)

\* x < y and x <= y as the program's comparisons decide them (false on NaN).
Lt(x, y) ==
  IF x.k = "nan" \/ y.k = "nan" THEN FALSE
  ELSE IF x.k = "inf" THEN x.m < 0 /\ ~(y.k = "inf" /\ y.m < 0)
  ELSE IF y.k = "inf" THEN y.m > 0
  ELSE Sub(x, y).m < 0

Le(x, y) == x.k # "nan" /\ y.k # "nan" /\ (x = y \/ Lt(x, y))

----------------------------------------------------------------------------
(* The Math functions the program calls *)

Gt0(x) == Lt(Zero, x)

\* x is a finite integer of magnitude below 10^6, and its value.
IsSmallInt(x) ==
  /\ x.k = "fin"
  /\ \/ x.m = 0
     \/ x.e >= 0 /\ x.e <= 3
     \/ x.e < 0 /\ x.e >= -MantDigits /\ x.m % Pow10(-x.e) = 0
ToInt(x) ==
  IF x.m = 0 THEN 0
  ELSE IF x.e >= 0 THEN x.m * Pow10(x.e)
  ELSE Sgn(x.m) * (Abs(x.m) \div Pow10(-x.e))

\* Math.round: the integer nearest to x, a tie going up.
MathRound(x) ==
  IF x.k # "fin" \/ x.e >= 0 THEN x
  ELSE IF x.e < -9 THEN Zero
  ELSE LET p == Pow10(-x.e)
       IN Int2F((2 * x.m + p) \div (2 * p))

\* Math.trunc: x without its fraction.
MathTrunc(x) ==
  IF x.k # "fin" \/ x.e >= 0 THEN x
  ELSE IF x.e < -9 THEN Zero
  ELSE Int2F(Sgn(x.m) * (Abs(x.m) \div Pow10(-x.e)))

\* Math.max of two values.
MathMax(x, y) ==
  IF x.k = "nan" \/ y.k = "nan" THEN NaN
  ELSE IF Lt(x, y) THEN y ELSE x

Two == Int2F(2)
Ln2 == Norm(693147, -6)
Ln10 == Norm(230259, -5)

\* 1/n
Recip(n) == Div(One, Int2F(n))

\* 2 * atanh(z), by its series in w = z^2.
Atanh2(z, w) ==
  Mul(Two, Mul(z,
    Add(One, Mul(w,
    Add(Recip(3), Mul(w,
    Add(Recip(5), Mul(w,
    Add(Recip(7), Mul(w,
    Add(Recip(9), Mul(w,
    Add(Recip(11), Mul(w, Recip(13)))))))))))))))

LnOfRatio(z) == Atanh2(z, Mul(z, z))

\* ln(y) for 1/2 <= y < 2: 2 * atanh((y - 1) / (y + 1)).
LnSeries(y) == LnOfRatio(Div(Sub(y, One), Add(y, One)))

RECURSIVE LnHalve(_, _)
LnHalve(y, k) == IF Le(Two, y) THEN LnHalve(Div(y, Two), k + 1) ELSE <<y, k>>

\* dexp * ln 10 + k * ln 2 + ln y, for yk = <<y, k>>.
LnSum(dexp, yk) ==
  Add(Add(Mul(Int2F(dexp), Ln10), Mul(Int2F(yk[2]), Ln2)), LnSeries(yk[1]))

\* Math.log: the natural logarithm.
MathLog(x) ==
  IF x.k = "nan" THEN NaN
  ELSE IF x.k = "inf" THEN (IF x.m > 0 THEN PInf ELSE NaN)
  ELSE IF x.m < 0 THEN NaN
  ELSE IF x.m = 0 THEN NInf
  ELSE IF Le(Norm(5, -1), x) /\ Lt(x, Two) THEN LnSeries(x)
  ELSE LnSum(x.e + MantDigits - 1, LnHalve(Fin(x.m, 1 - MantDigits), 0))

\* e^x for |x| <= 1/4, by its series.
ExpSeries(x) ==
  Add(One, Mul(x,
  Add(One, Mul(Div(x, Int2F(2)),
  Add(One, Mul(Div(x, Int2F(3)),
  Add(One, Mul(Div(x, Int2F(4)),
  Add(One, Mul(Div(x, Int2F(5)),
  Add(One, Mul(Div(x, Int2F(6)),
  Add(One, Div(x, Int2F(7)))))))))))))))

Square(h) == Mul(h, h)

RECURSIVE ExpFin(_)
ExpFin(x) ==
  IF Le(Norm(-25, -2), x) /\ Le(x, Norm(25, -2)) THEN ExpSeries(x)
  ELSE Square(ExpFin(Div(x, Two)))

MathExp(x) ==
  IF x.k = "nan" THEN NaN
  ELSE IF x.k = "inf" THEN (IF x.m > 0 THEN PInf ELSE Zero)
  ELSE ExpFin(x)

\* b^n for an integer n >= 0, by squaring.
RECURSIVE PowInt(_, _)
PowInt(b, n) ==
  IF n = 0 THEN One
  ELSE IF n % 2 = 1 THEN Mul(Square(PowInt(b, n \div 2)), b)
  ELSE Square(PowInt(b, n \div 2))

\* Math.pow(b, y).
MathPow(b, y) ==
  IF IsZero(y) THEN One
  ELSE IF b.k = "nan" \/ y.k = "nan" THEN NaN
  ELSE IF IsSmallInt(y)
       THEN (IF y.m > 0 THEN PowInt(b, ToInt(y))
             ELSE Div(One, PowInt(b, -ToInt(y))))
  ELSE MathExp(Mul(y, MathLog(b)))

----------------------------------------------------------------------------
(* Strings: a string is the sequence of its characters *)

DigitChars == <<"0", "1", "2", "3", "4", "5", "6", "7", "8", "9">>
IsDigit(c) == \E i \in 1..10 : DigitChars[i] = c
DigitVal(c) == (CHOOSE i \in 1..10 : DigitChars[i] = c) - 1

RECURSIVE DigitsOf(_)
DigitsOf(n) ==
  IF n < 10 THEN <<DigitChars[n + 1]>>
  ELSE Append(DigitsOf(n \div 10), DigitChars[(n % 10) + 1])

RECURSIVE Zeros(_)
Zeros(k) == IF k <= 0 THEN <<>> ELSE <<"0">> \o Zeros(k - 1)

RECURSIVE DigitsValue(_)
DigitsValue(s) ==
  IF s = <<>> THEN 0
  ELSE 10 * DigitsValue(SubSeq(s, 1, Len(s) - 1)) + DigitVal(s[Len(s)])

IndexOfDot(s) ==
  IF \E i \in 1..Len(s) : s[i] = "."
  THEN CHOOSE i \in 1..Len(s) : s[i] = "." /\ \A j \in 1..(i - 1) : s[j] # "."
  ELSE 0

\* Number(s) for a string of digits, "." and "-": an optional sign, then
\* digits with at most one ".", at least one digit; anything else is NaN.
StringToNumber(s) ==
  LET neg == Len(s) > 0 /\ s[1] = "-"
      body == IF neg THEN SubSeq(s, 2, Len(s)) ELSE s
      dot == IndexOfDot(body)
      ip == IF dot = 0 THEN body ELSE SubSeq(body, 1, dot - 1)
      fp == IF dot = 0 THEN <<>> ELSE SubSeq(body, dot + 1, Len(body))
      ok == /\ \A i \in 1..Len(ip) : IsDigit(ip[i])
            /\ \A i \in 1..Len(fp) : IsDigit(fp[i])
            /\ Len(ip) + Len(fp) > 0
      n == DigitsValue(ip \o fp)
  IN IF ~ok THEN NaN
     ELSE Norm(IF neg THEN -n ELSE n, -Len(fp))

IsSeparator(c) == c \in {",", " "}
NotSeparator(c) == ~IsSeparator(c)
NotComma(c) == c # ","

unformatNumberString(s) ==
  IF s = <<>> THEN NaN
  ELSE LET cleaned == SelectSeq(s, NotSeparator)
       IN IF cleaned = <<>> THEN NaN ELSE StringToNumber(cleaned)

\* Number.prototype.toFixed(2) of a finite x: <<sign, integer digits, two
\* decimals>>; the value is rounded to hundredths, a tie away from zero.
ToFixed2(x) ==
  LET a == Abs(x.m)
      cents == IF x.e >= -2 THEN DigitsOf(a) \o Zeros(x.e + 2)
               ELSE IF x.e < -11 THEN <<"0">>
               ELSE LET p == Pow10(-x.e - 2)
                    IN DigitsOf((a + p \div 2) \div p)
      padded == Zeros(3 - Len(cents)) \o cents
      n == Len(padded)
  IN <<IF x.m < 0 THEN <<"-">> ELSE <<>>,
       SubSeq(padded, 1, n - 2), SubSeq(padded, n - 1, n)>>

\* rest.replace(/\B(?=(\d{2})+(?!\d))/g, ","): a comma before every
\* position, but the first, that an even number of digits follows.
RECURSIVE GroupPairs(_)
GroupPairs(rest) ==
  IF Len(rest) <= 2 THEN rest
  ELSE GroupPairs(SubSeq(rest, 1, Len(rest) - 2)) \o <<",">>
       \o SubSeq(rest, Len(rest) - 1, Len(rest))

\* The dash the program shows for a value that is not finite.
Dash == <<"emdash">>

formatIndian(x) ==
  IF ~isFinite(x) THEN Dash
  ELSE LET parts == ToFixed2(x)
           sign == parts[1]
           intPart == parts[2]
           dec == parts[3]
           n == Len(intPart)
       IN IF n <= 3 THEN sign \o intPart \o <<".">> \o dec
          ELSE sign \o GroupPairs(SubSeq(intPart, 1, n - 3)) \o <<",">>
               \o SubSeq(intPart, n - 2, n) \o <<".">> \o dec

\* A replace that drops the whole decimal part: s.replace(/\..*$/, "")
StripDecimals(s) ==
  IF IndexOfDot(s) = 0 THEN s ELSE SubSeq(s, 1, IndexOfDot(s) - 1)

\* s.replace(/\.00$/, "")
StripDot00(s) ==
  LET n == Len(s)
  IN IF n >= 3 /\ SubSeq(s, n - 2, n) = <<".", "0", "0">>
     THEN SubSeq(s, 1, n - 3) ELSE s

\* (+x).toFixed(2) as a string.
toFixed2(x) ==
  IF ~isFinite(x) THEN <<"N", "a", "N">>
  ELSE ToFixed2(x)[1] \o ToFixed2(x)[2] \o <<".">> \o ToFixed2(x)[3]

----------------------------------------------------------------------------
(* The calculation *)

\* The logarithms of safeNper, once denom is known.
nperOf(denom, r) ==
  IF Le(denom, Zero) THEN NaN
  ELSE Div(Neg(MathLog(denom)), MathLog(Add(One, r)))

\* nper helper
safeNper(pv, emi, r) ==
  IF ~isFinite(pv) \/ ~isFinite(emi) \/ ~isFinite(r) \/ Le(emi, Zero)
  THEN NaN
  ELSE nperOf(Sub(One, Div(Mul(r, pv), emi)), r)

\* internal opportunity cost, 5.1 (per cent a year)
SAVINGS_ROI == Norm(51, -1)

NoResults ==
  [emi |-> NaN, yearsNew |-> NaN, interestSaved |-> NaN, netSavings |-> NaN,
   emisSaved |-> NaN, effectiveRate |-> NaN]

monthlyRateOf(rate) ==
  IF isFinite(rate) THEN Div(Div(rate, Int2F(100)), Int2F(12)) ELSE NaN

\* A validation that leaves the rate unchecked.
InputsValidNoRate(loan, rate, tenureYears) ==
  \A v \in {loan, tenureYears} : isFinite(v) /\ Gt0(v)

\* The validation at the head of calculateNow.
InputsValid(loan, rate, tenureYears) ==
  \A v \in {loan, rate, tenureYears} : isFinite(v) /\ Gt0(v)

\* The body of calculateNow past the validation, statement by statement:
\* each step takes the record c of the locals computed so far and adds its
\* own.
WithOrig(c) ==
  c @@ [nOrig |-> MathRound(Mul(c.tenureYears, Int2F(12)))]

\* The step with the principal after the offset left unclamped.
WithEmiUnclamped(c) ==
  c @@ [emi |-> IF IsZero(c.monthlyRate) THEN Div(c.loan, c.nOrig)
                ELSE Div(Mul(c.monthlyRate, c.loan),
                         Sub(One, MathPow(Add(One, c.monthlyRate),
                                          Neg(c.nOrig)))),
        principalAfter |->
          Sub(c.loan, IF isFinite(c.offset) THEN c.offset ELSE Zero)]

\* The step with the offset added to the principal.
WithEmiOffsetAdded(c) ==
  c @@ [emi |-> IF IsZero(c.monthlyRate) THEN Div(c.loan, c.nOrig)
                ELSE Div(Mul(c.monthlyRate, c.loan),
                         Sub(One, MathPow(Add(One, c.monthlyRate),
                                          Neg(c.nOrig)))),
        principalAfter |->
          MathMax(Zero,
                  Add(c.loan, IF isFinite(c.offset) THEN c.offset ELSE Zero))]

WithEmi(c) ==
  c @@ [emi |-> IF IsZero(c.monthlyRate) THEN Div(c.loan, c.nOrig)
                ELSE Div(Mul(c.monthlyRate, c.loan),
                         Sub(One, MathPow(Add(One, c.monthlyRate),
                                          Neg(c.nOrig)))),
        principalAfter |->
          MathMax(Zero,
                  Sub(c.loan, IF isFinite(c.offset) THEN c.offset ELSE Zero))]

WithNper(c) ==
  c @@ [nOrigReal |-> safeNper(c.loan, c.emi, c.monthlyRate),
        nNew |-> safeNper(c.principalAfter, c.emi, c.monthlyRate)]

\* The step with zero years put in place of an undefined nNew.
WithInterestZeroYears(c) ==
  c @@ [origInterest |-> Sub(Mul(c.emi, c.nOrigReal), c.loan),
        newInterest |-> Sub(Mul(c.emi, c.nNew), c.principalAfter),
        yearsNew |-> IF isFinite(c.nNew) THEN Div(c.nNew, Int2F(12)) ELSE Zero]

WithInterest(c) ==
  c @@ [origInterest |-> Sub(Mul(c.emi, c.nOrigReal), c.loan),
        newInterest |-> Sub(Mul(c.emi, c.nNew), c.principalAfter),
        yearsNew |-> Div(c.nNew, Int2F(12))]

WithOppCost(c) ==
  c @@ [interestSaved |-> Sub(c.origInterest, c.newInterest),
        oppCost |->
          IF /\ isFinite(c.yearsNew) /\ Gt0(c.yearsNew)
             /\ isFinite(c.offset) /\ Gt0(c.offset)
          THEN Mul(c.offset,
                   Sub(MathPow(Add(One, Div(SAVINGS_ROI, Int2F(100))),
                               c.yearsNew), One))
          ELSE Zero]

WithNet(c) ==
  c @@ [netSavings |-> Sub(c.interestSaved, c.oppCost),
        emisSaved |-> MathTrunc(Sub(c.nOrigReal, c.nNew))]

WithEffective(c) ==
  c @@ [effectiveRate |->
          IF isFinite(c.yearsNew) /\ Gt0(c.yearsNew)
          THEN Sub(c.rate, Mul(Div(c.netSavings, Mul(c.loan, c.yearsNew)),
                               Int2F(100)))
          ELSE NaN]

\* Every local of the body of calculateNow.
Locals(loan, rate, tenureYears, offset) ==
  WithEffective(WithNet(WithOppCost(WithInterest(WithNper(WithEmi(WithOrig(
    [loan |-> loan, rate |-> rate, tenureYears |-> tenureYears,
     offset |-> offset, monthlyRate |-> monthlyRateOf(rate)])))))))

\* The record calculateNow hands to setResults out of its locals.
ResultsOf(c) ==
  [emi |-> c.emi, yearsNew |-> c.yearsNew,
   interestSaved |-> c.interestSaved, netSavings |-> c.netSavings,
   emisSaved |-> c.emisSaved, effectiveRate |-> c.effectiveRate]

\* A calculateNow that returns early on invalid inputs without storing.
calculateNowKeep(prev, loan, rate, tenureYears, offset) ==
  IF ~InputsValid(loan, rate, tenureYears) THEN prev
  ELSE ResultsOf(Locals(loan, rate, tenureYears, offset))

\* calculateNow: the record it hands to setResults.  prev is the record
\* held before the call.
calculateNow(prev, loan, rate, tenureYears, offset) ==
  IF ~InputsValid(loan, rate, tenureYears) THEN NoResults
  ELSE ResultsOf(Locals(loan, rate, tenureYears, offset))

----------------------------------------------------------------------------
(* The component *)

VARIABLES
  loanStr,        \* the four input strings
  rateStr,
  tenureStr,
  offsetStr,
  focusedInput,   \* "null" or "true"
  results,        \* the result record
  prior,          \* history: the result record the last handler found
  last,           \* history: the handler that ran last, "init" before any
  at,             \* history: the field the last handler was on, or "none"
  entered         \* history: each field's string as the user last entered it

vars ==
  <<loanStr, rateStr, tenureStr, offsetStr, focusedInput, results, prior, last,
    at, entered>>

Fields == {"loan", "rate", "tenure", "offset"}

\* The strings a user types into each field, in the order the bound takes
\* them.
MaxTyped == 2

TypedLoan == << <<"0">>, <<"2", "1", "0", "0">>, <<"-", "5">> >>
TypedRate == << <<"0">>, <<"1", "a", "2">> >>
TypedTenure == << <<>>, <<"0", ".", "2", "5">> >>
TypedOffset == << <<"3", "0", "0">>, <<"2", "1", "0", "0">> >>

TypedOf(f) ==
  CASE f = "loan" -> TypedLoan
    [] f = "rate" -> TypedRate
    [] f = "tenure" -> TypedTenure
    [] f = "offset" -> TypedOffset

Typed(f) ==
  {TypedOf(f)[i] : i \in {j \in 1..Len(TypedOf(f)) : j <= MaxTyped}}

DefaultLoan == <<"1", "0", "0", "0", "0", "0", "0", "0">>
DefaultRate == <<"7", ".", "5">>
DefaultTenure == <<"2", "0">>
DefaultOffset == <<"1", "0", "0", "0", "0", "0">>

StrOf(f) ==
  CASE f = "loan" -> loanStr
    [] f = "rate" -> rateStr
    [] f = "tenure" -> tenureStr
    [] f = "offset" -> offsetStr

\* setLoanStr, setRateStr, setTenureStr, setOffsetStr
SetStr(f, v) ==
  /\ loanStr' = IF f = "loan" THEN v ELSE loanStr
  /\ rateStr' = IF f = "rate" THEN v ELSE rateStr
  /\ tenureStr' = IF f = "tenure" THEN v ELSE tenureStr
  /\ offsetStr' = IF f = "offset" THEN v ELSE offsetStr

\* The numbers parsed out of the strings.
loan == unformatNumberString(loanStr)
rate == unformatNumberString(rateStr)
tenureYears == unformatNumberString(tenureStr)
offset == unformatNumberString(offsetStr)

Init ==
  /\ loanStr = DefaultLoan
  /\ rateStr = DefaultRate
  /\ tenureStr = DefaultTenure
  /\ offsetStr = DefaultOffset
  /\ focusedInput = "null"
  /\ results = NoResults
  /\ prior = NoResults
  /\ last = "init"
  /\ at = "none"
  /\ entered = [loan |-> DefaultLoan, rate |-> DefaultRate,
                tenure |-> DefaultTenure, offset |-> DefaultOffset]

\* v.replace(/[^\d\.\-\,]/g, ""), then every "." after the first dropped.
IsInputChar(c) == IsDigit(c) \/ c \in {".", "-", ","}
NotDot(c) == c # "."
CleanInput(v) ==
  LET cleaned == SelectSeq(v, IsInputChar)
      dot == IndexOfDot(cleaned)
  IN IF dot = 0 THEN cleaned
     ELSE SubSeq(cleaned, 1, dot)
          \o SelectSeq(SubSeq(cleaned, dot + 1, Len(cleaned)), NotDot)

\* The numbers parsed out of the strings once field f holds str.
CalculateWith(f, str) ==
  calculateNow(results,
               unformatNumberString(IF f = "loan" THEN str ELSE loanStr),
               unformatNumberString(IF f = "rate" THEN str ELSE rateStr),
               unformatNumberString(IF f = "tenure" THEN str ELSE tenureStr),
               unformatNumberString(IF f = "offset" THEN str ELSE offsetStr))

\* A change handler that recalculates as the user types.
handleInputChangeAuto(f, v) ==
  /\ SetStr(f, CleanInput(v))
  /\ last' = "change"
  /\ at' = f
  /\ prior' = results
  /\ entered' = [entered EXCEPT ![f] = CleanInput(v)]
  /\ results' = CalculateWith(f, CleanInput(v))
  /\ UNCHANGED focusedInput

\* handleInputChange(setter)(e), e.target.value = v
handleInputChange(f, v) ==
  /\ SetStr(f, CleanInput(v))
  /\ last' = "change"
  /\ at' = f
  /\ prior' = results
  /\ entered' = [entered EXCEPT ![f] = CleanInput(v)]
  /\ UNCHANGED <<focusedInput, results>>

BlurFormat(strValue) ==
  LET num == unformatNumberString(strValue)
  IN IF ~isFinite(num) THEN <<>> ELSE StripDot00(formatIndian(num))

\* A blur handler that also calculates when the offset field is left.
handleBlurCalculate(f) ==
  /\ SetStr(f, BlurFormat(StrOf(f)))
  /\ focusedInput' = "null"
  /\ last' = "blur"
  /\ at' = f
  /\ prior' = results
  /\ results' = IF f = "offset" THEN CalculateWith(f, BlurFormat(StrOf(f)))
                ELSE results
  /\ UNCHANGED entered

\* handleBlurFormat(strValue, setter), the onBlur of field f
handleBlurFormat(f) ==
  /\ SetStr(f, BlurFormat(StrOf(f)))
  /\ focusedInput' = "null"
  /\ last' = "blur"
  /\ at' = f
  /\ prior' = results
  /\ UNCHANGED <<results, entered>>

\* handleFocusRaw(currentValue, setter), the onFocus of field f
handleFocusRaw(f) ==
  /\ focusedInput' = "true"
  /\ SetStr(f, SelectSeq(StrOf(f), NotComma))
  /\ last' = "focus"
  /\ at' = f
  /\ prior' = results
  /\ UNCHANGED <<results, entered>>

\* The onClick of "Calculate savings".
CalculateClick ==
  /\ results' = calculateNow(results, loan, rate, tenureYears, offset)
  /\ last' = "calculate"
  /\ at' = "none"
  /\ prior' = results
  /\ UNCHANGED <<loanStr, rateStr, tenureStr, offsetStr, focusedInput, entered>>

\* A Reset that restores the inputs and keeps the record.
ResetKeep(prev) == prev

\* The record the Reset button stores.
ResetResults(prev) == NoResults

\* The onClick of "Reset".
ResetClick ==
  /\ loanStr' = DefaultLoan
  /\ rateStr' = DefaultRate
  /\ tenureStr' = DefaultTenure
  /\ offsetStr' = DefaultOffset
  /\ results' = ResetResults(results)
  /\ last' = "reset"
  /\ at' = "none"
  /\ prior' = results
  /\ entered' = [loan |-> DefaultLoan, rate |-> DefaultRate,
                 tenure |-> DefaultTenure, offset |-> DefaultOffset]
  /\ UNCHANGED focusedInput

\* The summary the component renders: the sentence with its two
\* interpolated texts, or the prompt.
PromptText == <<"prompt">>
SummaryOf(r) ==
  IF isFinite(r.yearsNew) /\ isFinite(r.netSavings)
  THEN <<"sentence", toFixed2(r.yearsNew), formatIndian(r.netSavings)>>
  ELSE PromptText
Summary == SummaryOf(results)

Next ==
  \/ \E f \in Fields : \E v \in Typed(f) : handleInputChange(f, v)
  \/ \E f \in Fields : handleBlurFormat(f)
  \/ \E f \in Fields : handleFocusRaw(f)
  \/ CalculateClick
  \/ ResetClick

Spec == Init /\ [][Next]_vars

----------------------------------------------------------------------------
(* The calculation alone, on a grid of inputs *)

GridLoan == {<<"2", "1", "0", "0">>, <<"0">>, DefaultLoan}
GridRate == {<<"1", "2", "0", "0">>, <<"0">>, DefaultRate}
GridTenure == {<<"0", ".", "2", "5">>, <<"0", ".", "0", "4">>, DefaultTenure, <<>>}
GridOffset ==
  {<<>>, <<"0">>, <<"3", "0", "0">>, <<"9", "0", "0">>,
   <<"2", "1", "0", "0">>, <<"4", "2", "0", "0">>}

InitCalc ==
  /\ loanStr \in GridLoan
  /\ rateStr \in GridRate
  /\ tenureStr \in GridTenure
  /\ offsetStr \in GridOffset
  /\ focusedInput = "null"
  /\ results = NoResults
  /\ prior = NoResults
  /\ last = "init"
  /\ at = "none"
  /\ entered = [loan |-> loanStr, rate |-> rateStr,
                tenure |-> tenureStr, offset |-> offsetStr]

NextCalc == CalculateClick

SpecCalc == InitCalc /\ [][NextCalc]_vars

----------------------------------------------------------------------------
(* Focus, blur and Calculate alone, on entered strings that are not retyped *)

FocusLoan == {<<"2", "1", "0", "0">>, <<"1", "2", ",", "3", "4">>}
FocusRate == {<<"7", ".", "1", "2", "5">>, DefaultRate}
FocusTenure == {<<"0", ".", "2", "5">>, <<"0", ".", "0", "0", "4">>}
FocusOffset == {<<"3", "0", "0">>, <<"-">>}

InitFocus ==
  /\ loanStr \in FocusLoan
  /\ rateStr \in FocusRate
  /\ tenureStr \in FocusTenure
  /\ offsetStr \in FocusOffset
  /\ focusedInput = "null"
  /\ results = NoResults
  /\ prior = NoResults
  /\ last = "init"
  /\ at = "none"
  /\ entered = [loan |-> loanStr, rate |-> rateStr,
                tenure |-> tenureStr, offset |-> offsetStr]

NextFocus ==
  \/ \E f \in Fields : handleBlurFormat(f)
  \/ \E f \in Fields : handleFocusRaw(f)
  \/ CalculateClick

SpecFocus == InitFocus /\ [][NextFocus]_vars

----------------------------------------------------------------------------
(* Properties *)

\* A required input that fails the validation: not finite, or <= 0.
Invalid(v) == ~isFinite(v) \/ Le(v, Zero)

AllValid == ~Invalid(loan) /\ ~Invalid(rate) /\ ~Invalid(tenureYears)

\* The record a calculation from the current inputs stores, starting from an
\* empty record.
Fresh == calculateNow(NoResults, loan, rate, tenureYears, offset)

\* The locals of a calculation from the current inputs.
Now == Locals(loan, rate, tenureYears, offset)

ResultFields ==
  {"emi", "yearsNew", "interestSaved", "netSavings", "emisSaved",
   "effectiveRate"}

Defined(r) == isFinite(r.yearsNew) /\ isFinite(r.netSavings)

\* C1: after a Calculate made while the principal, the rate or the tenure is
\* not finite or is <= 0, all six fields of the stored record are undefined,
\* whatever record was there before and whatever the offset is.
C1_ValidationGate ==
  (last = "calculate" /\ (Invalid(loan) \/ Invalid(rate) \/ Invalid(tenureYears)))
    => \A fld \in ResultFields : IsNaN(results[fld])

\* A Calculate with an invalid principal that found a defined record and
\* left an undefined one.
C1_Witness ==
  /\ last = "calculate"
  /\ Invalid(loan)
  /\ Defined(prior) /\ isFinite(prior.emi)
  /\ results = NoResults

\* C2: for principal > 0, tenure > 0 and annual rate = 0, Calculate stores a
\* defined emi equal to principal / round(tenure * 12).
C2_ZeroRate ==
  (last = "calculate" /\ Gt0(loan) /\ Gt0(tenureYears) /\ IsZero(rate))
    => /\ isFinite(results.emi)
       /\ results.emi = Div(loan, MathRound(Mul(tenureYears, Int2F(12))))

\* C3: for principal > 0, rate >= 0, tenure > 0 and offset = 0, Calculate
\* stores netSavings = 0 and emisSaved = 0, and the periods after the offset
\* are the original ones (nNew = nOrigReal, yearsNew = nOrigReal / 12).
C3_ZeroOffset ==
  (/\ last = "calculate"
   /\ Gt0(loan) /\ Le(Zero, rate) /\ Gt0(tenureYears)
   /\ IsZero(offset))
    => /\ IsZero(results.netSavings)
       /\ IsZero(results.emisSaved)
       /\ isFinite(results.yearsNew)
       /\ results.yearsNew = Div(safeNper(loan, results.emi, monthlyRateOf(rate)),
                                 Int2F(12))

\* The original interest, emi * nOrigReal - principal, of the current inputs.
FullInterest == Sub(Mul(Now.emi, Now.nOrigReal), loan)

FullOffset == last = "calculate" /\ AllValid /\ isFinite(offset) /\ Le(loan, offset)

\* C4 as claimed: for valid principal, rate and tenure and every offset >=
\* principal, principalAfter is exactly 0, its periods solve is defined and
\* is 0, and the stored record has yearsNew = 0 and a defined interestSaved
\* equal to emi * nOrigReal - principal.
C4_FullOffsetAlways ==
  FullOffset
    => /\ IsZero(Now.principalAfter)
       /\ IsZero(Now.nNew)
       /\ IsZero(results.yearsNew)
       /\ isFinite(results.interestSaved)
       /\ results.interestSaved = FullInterest

\* C4 (amended): for valid principal, rate and tenure and every offset >=
\* principal, principalAfter is exactly 0; when the emi is finite the periods
\* solve for it is 0, yearsNew = 0, interestSaved equals emi * nOrigReal -
\* principal (defined exactly when nOrigReal is) and effectiveRate is
\* undefined; when the emi is not finite every field but emi is undefined.
C4_FullOffset ==
  FullOffset
    => /\ IsZero(Now.principalAfter)
       /\ isFinite(results.emi)
            => /\ IsZero(Now.nNew)
               /\ IsZero(results.yearsNew)
               /\ results.interestSaved = FullInterest
               /\ isFinite(results.interestSaved) <=> isFinite(Now.nOrigReal)
               /\ IsNaN(results.effectiveRate)
       /\ ~isFinite(results.emi)
            => \A fld \in ResultFields \ {"emi"} : IsNaN(results[fld])

\* A calculation with the offset at or above the principal that stored zero
\* years and the whole original interest as saved.
C4_Witness ==
  /\ FullOffset
  /\ isFinite(results.emi)
  /\ IsZero(results.yearsNew)
  /\ Gt0(results.interestSaved)
  /\ results.interestSaved = FullInterest

\* The conditions under which the periods solve is undefined.
NperUndefined(pv, emi, r) ==
  \/ ~isFinite(pv) \/ ~isFinite(emi) \/ ~isFinite(r)
  \/ Le(emi, Zero)
  \/ Le(Sub(One, Div(Mul(r, pv), emi)), Zero)

Unfulfillable ==
  /\ last = "calculate"
  /\ AllValid
  /\ NperUndefined(Now.principalAfter, Now.emi, Now.monthlyRate)

\* C5: in a Calculate that passes the validation, when the periods solve for
\* the principal after the offset is undefined, the stored yearsNew,
\* netSavings, emisSaved and effectiveRate are undefined and the stored emi
\* is the emi computed.
C5_Unfulfillable ==
  Unfulfillable
    => /\ IsNaN(results.yearsNew)
       /\ IsNaN(results.netSavings)
       /\ IsNaN(results.emisSaved)
       /\ IsNaN(results.effectiveRate)
       /\ results.emi = Now.emi
       /\ ~IsNaN(results.emi)

\* A calculation whose emi is finite but cannot amortize the principal.
C5_Witness ==
  /\ Unfulfillable
  /\ isFinite(results.emi)
  /\ IsNaN(results.yearsNew)

\* The offsets o2 of the grid with 0 <= offset <= o2 < principal.
LargerOffsets ==
  {o2 \in {unformatNumberString(str) : str \in GridOffset} :
     isFinite(o2) /\ Le(offset, o2) /\ Lt(o2, loan)}

WithOffset(o2) == calculateNow(NoResults, loan, rate, tenureYears, o2)

Ordered == last = "calculate" /\ AllValid /\ isFinite(offset) /\ Le(Zero, offset)

\* C6 as claimed: for valid principal, rate and tenure and offsets
\* 0 <= o1 <= o2 < principal, the record for o2 has interestSaved >= and
\* yearsNew <= those of the record for o1.
C6_MonotoneAlways ==
  Ordered
    => \A o2 \in LargerOffsets :
         /\ Le(results.interestSaved, WithOffset(o2).interestSaved)
         /\ Le(WithOffset(o2).yearsNew, results.yearsNew)

\* C6 (amended): for valid principal, rate and tenure and offsets
\* 0 <= o1 <= o2 < principal, when yearsNew is defined for o1 it is defined
\* for o2 and is no larger there.
C6_Monotone ==
  (Ordered /\ isFinite(results.yearsNew))
    => \A o2 \in LargerOffsets :
         /\ isFinite(WithOffset(o2).yearsNew)
         /\ Le(WithOffset(o2).yearsNew, results.yearsNew)

\* A calculation that a larger offset below the principal strictly shortens.
C6_Witness ==
  /\ Ordered
  /\ isFinite(results.yearsNew)
  /\ \E o2 \in LargerOffsets : Lt(WithOffset(o2).yearsNew, results.yearsNew)

\* C7: the record a Calculate stores is a function of the four current
\* inputs alone: after any history it is the record a calculation from these
\* inputs stores starting from an empty record, so nothing of the record
\* found before survives.
C7_Deterministic == last = "calculate" => results = Fresh

\* A Calculate that found one defined record and stored a different one.
C7_Witness ==
  /\ last = "calculate"
  /\ Defined(prior)
  /\ Defined(results)
  /\ results # prior

\* C8 as claimed: after a Calculate click, and after a blur of the offset
\* field, the result record is the one calculated from the inputs as they
\* are now.
C8_BlurCalculates ==
  (last = "calculate" \/ (last = "blur" /\ at = "offset")) => results = Fresh

\* C8 (amended): only the Calculate click invokes the calculator, and after
\* it the result record is the one calculated from the inputs as they are
\* now.  A blur of the offset field leaves the result record as it was.
C8_Triggers ==
  /\ last = "calculate"
       => results = calculateNow(prior, loan, rate, tenureYears, offset)
  /\ (last = "blur" /\ at = "offset") => results = prior

\* The offset field was just blurred and the record is still one that the
\* inputs as they are now do not calculate.
C8_Witness ==
  /\ last = "blur" /\ at = "offset"
  /\ focusedInput = "null"
  /\ results = prior
  /\ results # Fresh

\* C9: the summary is the sentence exactly when yearsNew and netSavings of
\* the record are both finite, and the prompt otherwise; it is the prompt
\* initially, after Reset, and after a Calculate with principal <= 0.
C9_Summary ==
  /\ Defined(results) => Summary[1] = "sentence"
  /\ ~Defined(results) => Summary = PromptText
  /\ last \in {"init", "reset"} => Summary = PromptText
  /\ (last = "calculate" /\ Le(loan, Zero)) => Summary = PromptText

\* A Reset that found the sentence on show and left the prompt.
C9_Witness ==
  /\ last = "reset"
  /\ SummaryOf(prior)[1] = "sentence"
  /\ Summary = PromptText

\* C10: typing into, focusing or blurring an input leaves the result record
\* as it was.
C10_NoAutoUpdate ==
  [][last' \in {"change", "focus", "blur"} => results' = results]_vars

\* After an edit the record on show is a defined one that the inputs as they
\* are now would not calculate.
C10_Witness ==
  /\ last \in {"change", "focus", "blur"}
  /\ Defined(results)
  /\ results = prior
  /\ results # Fresh

\* The number parsed out of field f as it is now, and as it was entered.
NumOf(f) == unformatNumberString(StrOf(f))
EnteredNum(f) == unformatNumberString(entered[f])

\* The digits after the "." of a string.
Decimals(s) ==
  IF IndexOfDot(s) = 0 THEN 0
  ELSE Len(SelectSeq(SubSeq(s, IndexOfDot(s) + 1, Len(s)), IsDigit))

\* The record a Calculate stores from the numbers as they were entered.
EnteredResults ==
  calculateNow(NoResults, EnteredNum("loan"), EnteredNum("rate"),
               EnteredNum("tenure"), EnteredNum("offset"))

\* y is x rounded to hundredths: within 0.005 of it.
Hundredths(x, y) ==
  /\ Le(Sub(y, x), Norm(5, -3))
  /\ Le(Sub(x, y), Norm(5, -3))

\* The statement without a limit on the decimals: after any focus and blur
\* events, with no typing, a field entered as a finite number still parses
\* to that number, and a Calculate stores the record of the entered numbers.
C11_PreservedAlways ==
  /\ \A f \in Fields : isFinite(EnteredNum(f)) => NumOf(f) = EnteredNum(f)
  /\ last = "calculate" => results = EnteredResults

\* C11: after any focus and blur events, with no typing, a field entered as
\* a finite number with at most two decimals still parses to that number; one
\* entered with more decimals parses to that number or, once blurred, to its
\* rounding to two decimals; and when every field was entered with at most
\* two decimals a Calculate stores the record of the entered numbers.
C11_Preserved ==
  /\ \A f \in Fields :
        isFinite(EnteredNum(f))
          => /\ Decimals(entered[f]) <= 2 => NumOf(f) = EnteredNum(f)
             /\ \/ NumOf(f) = EnteredNum(f)
                \/ /\ Decimals(StrOf(f)) <= 2
                   /\ Hundredths(EnteredNum(f), NumOf(f))
  /\ (last = "calculate" /\ \A f \in Fields : Decimals(entered[f]) <= 2)
       => results = EnteredResults

\* A Calculate on fields entered with at most two decimals, after a blur
\* rewrote the principal and the rate: the record is a defined one.
C11_Witness ==
  /\ last = "calculate"
  /\ \A f \in Fields : Decimals(entered[f]) <= 2
  /\ loanStr # entered["loan"]
  /\ rateStr # entered["rate"]
  /\ isFinite(EnteredNum("loan"))
  /\ Defined(results)

====
